---- MODULE Spec2Model ----
(***************************************************************************)
(* Model of VCF-Cleaner.py (class VCFCleaner): the Record Splitter          *)
(* (_parse_vcf_contacts), the Record Cleaner (_clean_contact with           *)
(* _should_remove_field) and the Deduplicator (_remove_duplicates with      *)
(* _extract_contact_info and _is_duplicate).                                *)
(*                                                                          *)
(* A text line is a sequence of one-character strings, so that strip(),     *)
(* upper(), lower(), startswith(), slicing and the two regular expressions  *)
(* are computed character by character, as Python computes them.  An        *)
(* optional value (Optional[List[str]]) is a sequence of length 0 (None) or *)
(* 1 (the value).                                                           *)
(***************************************************************************)
EXTENDS Integers, Sequences, FiniteSets, TLC

VARIABLES
  pc,                    \* which method is running, and where it stands
  stats,                 \* self.stats
  lines, pidx,           \* _parse_vcf_contacts: argument, position of the for loop
  contacts, current_contact, in_vcard,
  contact_lines, lidx,   \* _clean_contact: argument, position of the for loop
  cleaned_lines, has_phone, skip_until_next_field,
  ret,                   \* _clean_contact: the returned Optional[List[str]]
  cleaned_contacts, didx,  \* _remove_duplicates: argument, position of the for loop
  unique_contacts, contact_infos,
  output_file,           \* the file at output_path: absent, or its lines
  output_before,         \* the file at output_path when nettoyer_vcf was called
  result,                \* nettoyer_vcf: the returned bool, once it has returned
  runs,                  \* calls of nettoyer_vcf on this VCFCleaner
  cidx,                  \* nettoyer_vcf: position of the cleaning loop
  final_contacts, widx   \* nettoyer_vcf: records to write, position of the write loop

vars == << pc, stats, lines, pidx, contacts, current_contact, in_vcard,
           contact_lines, lidx, cleaned_lines, has_phone, skip_until_next_field,
           ret, cleaned_contacts, didx, unique_contacts, contact_infos,
           output_file, output_before, result, runs, cidx, final_contacts, widx >>

parseVars == << lines, pidx, contacts, current_contact, in_vcard >>
cleanVars == << contact_lines, lidx, cleaned_lines, has_phone,
                skip_until_next_field, ret >>
dedupVars == << cleaned_contacts, didx, unique_contacts, contact_infos >>
runVars == << output_file, output_before, result, runs, cidx, final_contacts, widx >>

----------------------------------------------------------------------------
(* Bounds of the model.                                                     *)

\* lines of a file handed to the Splitter
MaxFileLines == 6
\* lines of a record between its BEGIN and END line
MaxMid == 3
\* calls of _clean_contact on one VCFCleaner
MaxCalls == 2
\* records handed to the Deduplicator
MaxContacts == 3
\* pieces (records and stray lines) of a file handed to nettoyer_vcf
MaxPieces == 3
\* calls of nettoyer_vcf on one VCFCleaner
MaxRuns == 2
\* pieces of a file, when several calls follow one another
MaxRerunPieces == 1

----------------------------------------------------------------------------
(* Python string operations, on sequences of characters.                    *)

LowerChars == << "a", "b", "c", "d", "e", "f", "g", "h", "i", "j", "k", "l", "m",
                 "n", "o", "p", "q", "r", "s", "t", "u", "v", "w", "x", "y", "z" >>
UpperChars == << "A", "B", "C", "D", "E", "F", "G", "H", "I", "J", "K", "L", "M",
                 "N", "O", "P", "Q", "R", "S", "T", "U", "V", "W", "X", "Y", "Z" >>
Digits == { "0", "1", "2", "3", "4", "5", "6", "7", "8", "9" }

\* the whitespace str.strip() removes and the regex class \s matches
IsSpace(c) == c \in { " ", "\t", "\n", "\r" }

\* the letters str.upper() and str.lower() change, with what they become
UpperMap == [ c \in { LowerChars[i] : i \in DOMAIN LowerChars } |->
                UpperChars[CHOOSE i \in DOMAIN LowerChars : LowerChars[i] = c] ]
LowerMap == [ c \in { UpperChars[i] : i \in DOMAIN UpperChars } |->
                LowerChars[CHOOSE i \in DOMAIN UpperChars : UpperChars[i] = c] ]

UpperChar(c) == IF c \in DOMAIN UpperMap THEN UpperMap[c] ELSE c
LowerChar(c) == IF c \in DOMAIN LowerMap THEN LowerMap[c] ELSE c

\* str.upper(), str.lower()
Upper(s) == [ i \in DOMAIN s |-> UpperChar(s[i]) ]
Lower(s) == [ i \in DOMAIN s |-> LowerChar(s[i]) ]

RECURSIVE LStrip(_)
LStrip(s) == IF Len(s) > 0 /\ IsSpace(s[1]) THEN LStrip(Tail(s)) ELSE s

RECURSIVE RStrip(_)
RStrip(s) ==
  IF Len(s) > 0 /\ IsSpace(s[Len(s)]) THEN RStrip(SubSeq(s, 1, Len(s) - 1)) ELSE s

\* str.strip()
Strip(s) == RStrip(LStrip(s))

\* str.startswith(p)
StartsWith(s, p) == Len(s) >= Len(p) /\ SubSeq(s, 1, Len(p)) = p

\* c in s
Contains(s, c) == \E i \in DOMAIN s : s[i] = c

\* s[n:]
DropFirst(s, n) == SubSeq(s, n + 1, Len(s))

\* s[-n:]
LastN(s, n) == IF Len(s) <= n THEN s ELSE SubSeq(s, Len(s) - n + 1, Len(s))

----------------------------------------------------------------------------
(* __init__                                                                 *)

fields_to_remove ==
  << <<"P", "H", "O", "T", "O">>,
     <<"N", "O", "T", "E">>,
     <<"A", "D", "R">>,
     <<"O", "R", "G">>,
     <<"T", "I", "T", "L", "E">>,
     <<"B", "D", "A", "Y">>,
     <<"I", "M", "P", "P">>,
     <<"L", "A", "B", "E", "L">>,
     <<"U", "R", "L">>,
     <<"X", "-", "A", "B", "L", "a", "b", "e", "l">>,
     <<"P", "R", "O", "D", "I", "D">>,
     <<"V", "E", "R", "S", "I", "O", "N">>,
     <<"X", "-", "A", "N", "D", "R", "O", "I", "D", "-", "C", "U", "S", "T", "O", "M">>,
     <<"X", "-", "P", "H", "O", "N", "E", "T", "I", "C">>,
     <<"N", "I", "C", "K", "N", "A", "M", "E">>,
     <<"R", "O", "L", "E">>,
     <<"C", "A", "T", "E", "G", "O", "R", "I", "E", "S">>,
     <<"C", "A", "L", "U", "R", "I">>,
     <<"F", "B", "U", "R", "L">>,
     <<"K", "E", "Y">>,
     <<"L", "O", "G", "O">>,
     <<"S", "O", "U", "N", "D">>,
     <<"U", "I", "D">>,
     <<"T", "Z">>,
     <<"G", "E", "O">>,
     <<"C", "L", "A", "S", "S">>,
     <<"S", "O", "R", "T", "-", "S", "T", "R", "I", "N", "G">> >>

InitStats ==
  [ total_contacts |-> 0, contacts_with_phone |-> 0, contacts_removed |-> 0,
    duplicates_removed |-> 0, blocks_removed |-> 0 ]

----------------------------------------------------------------------------
(* _should_remove_field                                                     *)

ShouldRemoveField(line) ==
  LET line_upper == Upper(line)
  IN \E k \in DOMAIN fields_to_remove :
        \/ StartsWith(line_upper, fields_to_remove[k] \o << ":" >>)
        \/ StartsWith(line_upper, fields_to_remove[k] \o << ";" >>)

----------------------------------------------------------------------------
(* _parse_vcf_contacts                                                      *)

BeginMarker == << "B", "E", "G", "I", "N", ":", "V", "C", "A", "R", "D" >>
EndMarker == << "E", "N", "D", ":", "V", "C", "A", "R", "D" >>

\* ParseStep without the test of in_vcard at line 112
ParseStepNoGuard(st, line) ==
  LET line_stripped == Strip(line)
  IN IF StartsWith(line_stripped, BeginMarker)
     THEN [ st EXCEPT !.current_contact = << line >>, !.in_vcard = TRUE ]
     ELSE IF StartsWith(line_stripped, EndMarker)
     THEN [ contacts |-> Append(st.contacts, Append(st.current_contact, line)),
            current_contact |-> << >>,
            in_vcard |-> FALSE ]
     ELSE IF st.in_vcard
     THEN [ st EXCEPT !.current_contact = Append(st.current_contact, line) ]
     ELSE st

\* one iteration of the for loop, on the local variables st
ParseStep(st, line) ==
  LET line_stripped == Strip(line)
  IN IF StartsWith(line_stripped, BeginMarker)
     THEN [ st EXCEPT !.current_contact = << line >>, !.in_vcard = TRUE ]
     ELSE IF StartsWith(line_stripped, EndMarker)
     THEN [ contacts |-> IF st.in_vcard
                         THEN Append(st.contacts, Append(st.current_contact, line))
                         ELSE st.contacts,
            current_contact |-> << >>,
            in_vcard |-> FALSE ]
     ELSE IF st.in_vcard
     THEN [ st EXCEPT !.current_contact = Append(st.current_contact, line) ]
     ELSE st

ParseLocals0 == [ contacts |-> << >>, current_contact |-> << >>, in_vcard |-> FALSE ]

RECURSIVE ParseFold(_, _)
ParseFold(st, ls) ==
  IF ls = << >> THEN st ELSE ParseFold(ParseStep(st, Head(ls)), Tail(ls))

\* the value _parse_vcf_contacts returns
ParseVcfContacts(ls) == ParseFold(ParseLocals0, ls).contacts

----------------------------------------------------------------------------
(* _clean_contact                                                           *)

TelPrefix == << "T", "E", "L" >>

\* line 135: the test that ends skip mode, on the stripped line
EndsSkip(line_stripped) ==
  Contains(line_stripped, ":") /\ ~StartsWith(line_stripped, << " " >>)

\* IsTelLine asking for 'TEL:' where the code asks for 'TEL'
IsTelLineColon(line_stripped) ==
  StartsWith(Upper(line_stripped), TelPrefix \o << ":" >>)

\* line 148: the test that marks the record as having a phone
IsTelLine(line_stripped) == StartsWith(Upper(line_stripped), TelPrefix)

\* Retained appending the stripped line where the code appends the line
RetainedStripped(line, line_stripped) == << line_stripped >>

\* line 151: what a retained line contributes to cleaned_lines
Retained(line, line_stripped) == << line >>

\* CleanStep with a blank line ending skip mode
CleanStepBlankEnds(st, line) ==
  LET line_stripped == Strip(line)
  IN IF st.skip_until_next_field /\ ~EndsSkip(line_stripped)
     THEN [ st EXCEPT !.blocks_removed = @ + 1,
                      !.skip_until_next_field = (line_stripped # << >>) ]
     ELSE IF ShouldRemoveField(line_stripped)
     THEN [ st EXCEPT !.skip_until_next_field = TRUE, !.blocks_removed = @ + 1 ]
     ELSE [ cleaned_lines |-> st.cleaned_lines \o Retained(line, line_stripped),
            has_phone |-> st.has_phone \/ IsTelLine(line_stripped),
            skip_until_next_field |-> FALSE,
            blocks_removed |-> st.blocks_removed ]

\* CleanStep counting the directly matched lines only, not the lines consumed
\* in skip mode
CleanStepNoCountSkipped(st, line) ==
  LET line_stripped == Strip(line)
  IN IF st.skip_until_next_field /\ ~EndsSkip(line_stripped)
     THEN st
     ELSE IF ShouldRemoveField(line_stripped)
     THEN [ st EXCEPT !.skip_until_next_field = TRUE, !.blocks_removed = @ + 1 ]
     ELSE [ cleaned_lines |-> st.cleaned_lines \o Retained(line, line_stripped),
            has_phone |-> st.has_phone \/ IsTelLine(line_stripped),
            skip_until_next_field |-> FALSE,
            blocks_removed |-> st.blocks_removed ]

\* CleanStep dropping the line that ends skip mode along with the block
CleanStepSkipEats(st, line) ==
  LET line_stripped == Strip(line)
  IN IF st.skip_until_next_field
     THEN [ st EXCEPT !.blocks_removed = @ + 1,
                      !.skip_until_next_field = ~EndsSkip(line_stripped) ]
     ELSE IF ShouldRemoveField(line_stripped)
     THEN [ st EXCEPT !.skip_until_next_field = TRUE, !.blocks_removed = @ + 1 ]
     ELSE [ cleaned_lines |-> st.cleaned_lines \o Retained(line, line_stripped),
            has_phone |-> st.has_phone \/ IsTelLine(line_stripped),
            skip_until_next_field |-> FALSE,
            blocks_removed |-> st.blocks_removed ]

\* one iteration of the for loop, on the local variables and blocks_removed
CleanStep(st, line) ==
  LET line_stripped == Strip(line)
  IN IF st.skip_until_next_field /\ ~EndsSkip(line_stripped)
     THEN [ st EXCEPT !.blocks_removed = @ + 1 ]
     ELSE IF ShouldRemoveField(line_stripped)
     THEN [ st EXCEPT !.skip_until_next_field = TRUE, !.blocks_removed = @ + 1 ]
     ELSE [ cleaned_lines |-> st.cleaned_lines \o Retained(line, line_stripped),
            has_phone |-> st.has_phone \/ IsTelLine(line_stripped),
            skip_until_next_field |-> FALSE,
            blocks_removed |-> st.blocks_removed ]

CleanLocals0(blocks) ==
  [ cleaned_lines |-> << >>, has_phone |-> FALSE,
    skip_until_next_field |-> FALSE, blocks_removed |-> blocks ]

RECURSIVE CleanFold(_, _)
CleanFold(st, ls) ==
  IF ls = << >> THEN st ELSE CleanFold(CleanStep(st, Head(ls)), Tail(ls))

\* CleanResult without the test of has_phone
CleanResultAlways(st) == << st.cleaned_lines >>

\* lines 154-159: the value _clean_contact returns for the final locals st
CleanResult(st) == IF st.has_phone THEN << st.cleaned_lines >> ELSE << >>

\* the value _clean_contact returns
CleanContact(ls) == CleanResult(CleanFold(CleanLocals0(0), ls))

----------------------------------------------------------------------------
(* _extract_contact_info                                                    *)

FnPrefix == << "F", "N", ":" >>
EmailPrefix == << "E", "M", "A", "I", "L" >>

\* the character class [\d\s\-\+\(\)]
PhoneClass(c) == c \in Digits \/ IsSpace(c) \/ c \in { "-", "+", "(", ")" }

\* the characters re.sub(r'[\s\-\(\)]', '', ...) deletes
PhoneNoise(c) == IsSpace(c) \/ c \in { "-", "(", ")" }

\* the character class . (any character but a newline)
NotNewline(c) == c # "\n"

\* the two classes the regular expressions repeat
InClass(cls, c) == IF cls = "phone" THEN PhoneClass(c) ELSE NotNewline(c)

RECURSIVE TakeWhile(_, _)
TakeWhile(cls, s) ==
  IF Len(s) > 0 /\ InClass(cls, Head(s))
  THEN << Head(s) >> \o TakeWhile(cls, Tail(s))
  ELSE << >>

\* re.search(r':(CLASS+)', line).group(1), as an optional value: the leftmost
\* ':' followed by a character of the class, then the longest run of the class
SearchAfterColon(cls, line) ==
  LET starts == { i \in 1 .. Len(line) - 1 : line[i] = ":" /\ InClass(cls, line[i + 1]) }
  IN IF starts = {} THEN << >>
     ELSE LET i == CHOOSE m \in starts : \A n \in starts : m <= n
          IN << TakeWhile(cls, DropFirst(line, i)) >>

InfoEmpty == [ name |-> << >>, phones |-> << >>, emails |-> << >> ]

\* one iteration of the for loop
ExtractStep(info, line) ==
  LET line_upper == Upper(line)
  IN IF StartsWith(line_upper, FnPrefix)
     THEN [ info EXCEPT !.name = Strip(DropFirst(line, 3)) ]
     ELSE IF StartsWith(line_upper, TelPrefix)
     THEN LET tel_match == SearchAfterColon("phone", line)
          IN IF tel_match = << >> THEN info
             ELSE LET phone == SelectSeq(tel_match[1], LAMBDA c : ~PhoneNoise(c))
                  IN IF phone = << >> THEN info
                     ELSE [ info EXCEPT !.phones = Append(@, phone) ]
     ELSE IF StartsWith(line_upper, EmailPrefix)
     THEN LET email_match == SearchAfterColon("any", line)
          IN IF email_match = << >> THEN info
             ELSE [ info EXCEPT !.emails = Append(@, Strip(email_match[1])) ]
     ELSE info

RECURSIVE ExtractFold(_, _)
ExtractFold(info, ls) ==
  IF ls = << >> THEN info ELSE ExtractFold(ExtractStep(info, Head(ls)), Tail(ls))

ExtractContactInfo(contact_lines_) == ExtractFold(InfoEmpty, contact_lines_)

----------------------------------------------------------------------------
(* _is_duplicate                                                            *)

\* the number of final characters two phones are compared on
SuffixLen == 8

\* NameMatch lowering the first name only
NameMatchLowerFirst(contact1, contact2) ==
  /\ contact1.name # << >> /\ contact2.name # << >>
  /\ Lower(contact1.name) = contact2.name

\* NameMatch without the test that both names are non-empty
NameMatchEmpty(contact1, contact2) ==
  Lower(contact1.name) = Lower(contact2.name)

\* lines 82-84
NameMatch(contact1, contact2) ==
  /\ contact1.name # << >> /\ contact2.name # << >>
  /\ Lower(contact1.name) = Lower(contact2.name)

\* PhonePairMatch without the length test of line 90
PhonePairMatchNoLength(phone1, phone2) ==
  LastN(phone1, SuffixLen) = LastN(phone2, SuffixLen)

\* lines 90-92, for one phone1 and one phone2 of the nested loops
PhonePairMatch(phone1, phone2) ==
  /\ Len(phone1) >= SuffixLen /\ Len(phone2) >= SuffixLen
  /\ LastN(phone1, SuffixLen) = LastN(phone2, SuffixLen)

IsDuplicate(contact1, contact2) ==
  \/ NameMatch(contact1, contact2)
  \/ \E i \in DOMAIN contact1.phones : \E j \in DOMAIN contact2.phones :
        PhonePairMatch(contact1.phones[i], contact2.phones[j])

----------------------------------------------------------------------------
(* _remove_duplicates                                                       *)

\* MatchesExisting comparing with the last accepted identity only
MatchesLastOnly(info, infos) ==
  Len(infos) > 0 /\ IsDuplicate(info, infos[Len(infos)])

\* MatchesExisting leaving the loop after the first accepted identity
MatchesFirstOnly(info, infos) ==
  Len(infos) > 0 /\ IsDuplicate(info, infos[1])

\* lines 173-177: the inner loop over contact_infos, with its break
MatchesExisting(info, infos) ==
  \E k \in DOMAIN infos : IsDuplicate(info, infos[k])

\* DedupStepFn without the break: a dropped record is counted once for every
\* accepted identity it matches
DedupStepFnCountEach(st, contact) ==
  LET info == ExtractContactInfo(contact)
      n == Cardinality({ k \in DOMAIN st.contact_infos :
                           IsDuplicate(info, st.contact_infos[k]) })
  IN IF n > 0
     THEN [ st EXCEPT !.duplicates_removed = @ + n ]
     ELSE [ st EXCEPT !.unique_contacts = Append(@, contact),
                      !.contact_infos = Append(@, info) ]

\* DedupStepFn without the test of line 179: a duplicate is counted and kept
DedupStepFnKeepsDuplicate(st, contact) ==
  LET info == ExtractContactInfo(contact)
  IN [ st EXCEPT !.unique_contacts = Append(@, contact),
                 !.contact_infos = Append(@, info),
                 !.duplicates_removed =
                    IF MatchesExisting(info, st.contact_infos) THEN @ + 1 ELSE @ ]

\* one iteration of the outer for loop, on the locals and duplicates_removed
DedupStepFn(st, contact) ==
  LET info == ExtractContactInfo(contact)
  IN IF MatchesExisting(info, st.contact_infos)
     THEN [ st EXCEPT !.duplicates_removed = @ + 1 ]
     ELSE [ st EXCEPT !.unique_contacts = Append(@, contact),
                      !.contact_infos = Append(@, info) ]

DedupLocals0(dups) ==
  [ unique_contacts |-> << >>, contact_infos |-> << >>, duplicates_removed |-> dups ]

RECURSIVE DedupFold(_, _)
DedupFold(st, cs) ==
  IF cs = << >> THEN st ELSE DedupFold(DedupStepFn(st, Head(cs)), Tail(cs))

\* the list _remove_duplicates returns
RemoveDuplicates(cs) == DedupFold(DedupLocals0(0), cs).unique_contacts

----------------------------------------------------------------------------
(* nettoyer_vcf and _print_stats                                            *)

\* NoContacts without the early return: the run goes on with no record
NoContactsNever(cs) == FALSE

\* line 220: not contacts
NoContacts(cs) == cs = << >>

\* line 228: if cleaned_contact (None and the empty list are both false)
Truthy(cleaned_contact) == cleaned_contact # << >> /\ cleaned_contact[1] # << >>

\* line 252
FinalCount(st) == st.contacts_with_phone - st.duplicates_removed

\* what f.writelines(contact) for each contact puts in the file
RECURSIVE Flatten(_)
Flatten(cs) == IF cs = << >> THEN << >> ELSE Head(cs) \o Flatten(Tail(cs))

----------------------------------------------------------------------------
(* The inputs the methods are called with.                                  *)

SeqsUpTo(S, n) == UNION { [ 1 .. k -> S ] : k \in 0 .. n }

L_BEGIN == << "B", "E", "G", "I", "N", ":", "V", "C", "A", "R", "D", "\n" >>
L_END == << "E", "N", "D", ":", "V", "C", "A", "R", "D", "\n" >>
L_BEGIN_SP == << " ", "B", "E", "G", "I", "N", ":", "V", "C", "A", "R", "D", "\n" >>
L_end_lower == << "e", "n", "d", ":", "v", "c", "a", "r", "d", "\n" >>
L_TEL == << "T", "E", "L", ":", "1", "\n" >>
L_tel_nocolon == << "t", "e", "l", ";", "x", "\n" >>
L_photo == << "p", "h", "o", "t", "o", ";", "X", ":", "\n" >>
L_CONT_COLON == << " ", "A", "B", ":", "C", "D", "\n" >>
L_BLANK == << "\n" >>
L_FN_Al == << "F", "N", ":", "A", "l", "\n" >>
L_FN_al == << "F", "N", ":", "a", "l", "\n" >>
L_FN_Bo == << "F", "N", ":", "B", "o", "\n" >>
L_EMAIL == << "E", "M", "A", "I", "L", ":", "a", "@", "b", "\n" >>
L_TEL_A == << "T", "E", "L", ":", "+", "1", "-", "5", "5", "5", "-", "1", "2", "3",
              "-", "4", "5", "6", "7", "\n" >>
L_TEL_A2 == << "T", "E", "L", ":", "0", "1", "5", "5", "5", "1", "2", "3", "4", "5",
               "6", "7", "\n" >>
L_TEL_B == << "T", "E", "L", ":", "5", "5", "5", "9", "8", "7", "6", "5", "4", "3", "\n" >>
L_TEL_B2 == << "T", "E", "L", ";", "C", "E", "L", "L", ":", "(", "0", "1", ")", " ",
               "5", "5", "5", "9", "8", "7", "6", "5", "4", "3", "\n" >>
L_TEL_SHORT == << "T", "E", "L", ":", "1", "2", "3", "\n" >>
L_TEL_8 == << "T", "E", "L", ":", "5", "1", "2", "3", "4", "5", "6", "7", "\n" >>
L_TEL_7 == << "T", "E", "L", ":", "1", "2", "3", "4", "5", "6", "7", "\n" >>
L_FN_EMPTY == << "F", "N", ":", " ", "\n" >>

\* files for the Splitter: markers (one indented, one in the wrong case) and a
\* property line, in any order
SplitPool == { L_BEGIN_SP, L_END, L_end_lower, L_TEL }
FileInputs == SeqsUpTo(SplitPool, MaxFileLines)

\* records for the Cleaner, as the Splitter emits them: a BEGIN line, lines that
\* are neither marker, an END line
CleanPool == { L_TEL, L_tel_nocolon, L_photo, L_CONT_COLON, L_BLANK }
Records == { << L_BEGIN >> \o mid \o << L_END >> : mid \in SeqsUpTo(CleanPool, MaxMid) }

\* cleaned records for the Deduplicator, as the Cleaner returns them: no
\* removable line, at least one TEL line
R_Al == << L_BEGIN, L_FN_Al, L_TEL_A, L_END >>
R_al == << L_BEGIN, L_FN_al, L_TEL_B, L_END >>
R_Bo == << L_BEGIN, L_FN_Bo, L_TEL_SHORT, L_TEL_B2, L_EMAIL, L_END >>
R_Anon == << L_BEGIN, L_TEL_A2, L_END >>
R_Short == << L_BEGIN, L_TEL_SHORT, L_END >>
R_Eight == << L_BEGIN, L_TEL_8, L_END >>
R_Seven == << L_BEGIN, L_FN_EMPTY, L_TEL_7, L_END >>
DedupPool == { R_Al, R_al, R_Bo, R_Anon, R_Short, R_Eight, R_Seven }
DedupInputs == SeqsUpTo(DedupPool, MaxContacts)

\* files for nettoyer_vcf: pieces in any order; records with and without a
\* TEL line, two of them duplicates, one whose removable block runs up to the
\* END line, one with an indented BEGIN line, and a stray END line
K_Al == R_Al
K_Anon == R_Anon
K_NoTel == << L_BEGIN, L_FN_Bo, L_END >>
K_Photo == << L_BEGIN_SP, L_TEL_SHORT, L_photo, L_BLANK, L_END >>
K_Stray == << L_END >>
K_Open == << L_BEGIN, L_TEL >>
PiecePool == { K_Al, K_Anon, K_NoTel, K_Photo, K_Stray, K_Open }
\* the input path names no file (<< >>), or a file with these lines
RunInputs == { << >> } \cup { << Flatten(ps) >> : ps \in SeqsUpTo(PiecePool, MaxPieces) }
\* the files of the calls that follow one another on one VCFCleaner: a record
\* that is written, one that is rejected, and the two pieces that hold no block
RerunPool == { K_Al, K_NoTel, K_Stray, K_Open }
RerunInputs ==
  { << >> } \cup { << Flatten(ps) >> : ps \in SeqsUpTo(RerunPool, MaxRerunPieces) }

----------------------------------------------------------------------------
(* The state after construction, and the methods as actions.                *)

Init ==
  /\ pc = "idle"
  /\ stats = InitStats
  /\ lines = << >> /\ pidx = 0
  /\ contacts = << >> /\ current_contact = << >> /\ in_vcard = FALSE
  /\ contact_lines = << >> /\ lidx = 0
  /\ cleaned_lines = << >> /\ has_phone = FALSE /\ skip_until_next_field = FALSE
  /\ ret = << >>
  /\ cleaned_contacts = << >> /\ didx = 0
  /\ unique_contacts = << >> /\ contact_infos = << >>
  /\ output_file = << >> /\ output_before = << >>
  /\ result = << >> /\ runs = 0
  /\ cidx = 0 /\ final_contacts = << >> /\ widx = 0

\* _parse_vcf_contacts(lines): lines 100-102
ParseCall ==
  /\ pc = "idle"
  /\ \E ls \in FileInputs : lines' = ls
  /\ pidx' = 0
  /\ contacts' = ParseLocals0.contacts
  /\ current_contact' = ParseLocals0.current_contact
  /\ in_vcard' = ParseLocals0.in_vcard
  /\ pc' = "parse"
  /\ UNCHANGED << stats, cleanVars, dedupVars, runVars >>

\* lines 104-117: one iteration
ParseLine ==
  /\ pc = "parse" /\ pidx < Len(lines)
  /\ LET st == ParseStep([ contacts |-> contacts, current_contact |-> current_contact,
                           in_vcard |-> in_vcard ], lines[pidx + 1])
     IN /\ contacts' = st.contacts
        /\ current_contact' = st.current_contact
        /\ in_vcard' = st.in_vcard
  /\ pidx' = pidx + 1
  /\ UNCHANGED << pc, stats, lines, cleanVars, dedupVars, runVars >>

\* line 119
ParseReturn ==
  /\ pc = "parse" /\ pidx = Len(lines)
  /\ pc' = "parsed"
  /\ UNCHANGED << stats, parseVars, cleanVars, dedupVars, runVars >>

\* _clean_contact(contact_lines): lines 125-127
CleanCall ==
  /\ pc = "idle"
  /\ stats.contacts_with_phone + stats.contacts_removed < MaxCalls
  /\ \E rec \in Records : contact_lines' = rec
  /\ lidx' = 0
  /\ cleaned_lines' = CleanLocals0(0).cleaned_lines
  /\ has_phone' = CleanLocals0(0).has_phone
  /\ skip_until_next_field' = CleanLocals0(0).skip_until_next_field
  /\ ret' = << >>
  /\ pc' = "clean"
  /\ UNCHANGED << stats, parseVars, dedupVars, runVars >>

\* lines 129-151: one iteration
CleanLine ==
  /\ pc = "clean" /\ lidx < Len(contact_lines)
  /\ LET st == CleanStep([ cleaned_lines |-> cleaned_lines, has_phone |-> has_phone,
                           skip_until_next_field |-> skip_until_next_field,
                           blocks_removed |-> stats.blocks_removed ],
                         contact_lines[lidx + 1])
     IN /\ cleaned_lines' = st.cleaned_lines
        /\ has_phone' = st.has_phone
        /\ skip_until_next_field' = st.skip_until_next_field
        /\ stats' = [ stats EXCEPT !.blocks_removed = st.blocks_removed ]
  /\ lidx' = lidx + 1
  /\ UNCHANGED << pc, contact_lines, ret, parseVars, dedupVars, runVars >>

\* lines 154-159
CleanReturn ==
  /\ pc = "clean" /\ lidx = Len(contact_lines)
  /\ ret' = CleanResult([ cleaned_lines |-> cleaned_lines, has_phone |-> has_phone ])
  /\ stats' = IF has_phone
              THEN [ stats EXCEPT !.contacts_with_phone = @ + 1 ]
              ELSE [ stats EXCEPT !.contacts_removed = @ + 1 ]
  /\ pc' = "cleaned"
  /\ UNCHANGED << contact_lines, lidx, cleaned_lines, has_phone,
                  skip_until_next_field, parseVars, dedupVars, runVars >>

\* line 227: the caller has the returned value and the call's locals are gone;
\* self.stats stays
CleanDone ==
  /\ pc = "cleaned"
  /\ contact_lines' = << >> /\ lidx' = 0
  /\ cleaned_lines' = << >> /\ has_phone' = FALSE /\ skip_until_next_field' = FALSE
  /\ ret' = << >>
  /\ pc' = "idle"
  /\ UNCHANGED << stats, parseVars, dedupVars, runVars >>

\* _remove_duplicates(contacts): lines 165-166
DedupCall ==
  /\ pc = "idle"
  /\ \E cs \in DedupInputs : cleaned_contacts' = cs
  /\ didx' = 0
  /\ unique_contacts' = << >> /\ contact_infos' = << >>
  /\ pc' = "dedup"
  /\ UNCHANGED << stats, parseVars, cleanVars, runVars >>

\* lines 168-181: one iteration of the outer loop
DedupStep ==
  /\ pc = "dedup" /\ didx < Len(cleaned_contacts)
  /\ LET st == DedupStepFn([ unique_contacts |-> unique_contacts,
                             contact_infos |-> contact_infos,
                             duplicates_removed |-> stats.duplicates_removed ],
                           cleaned_contacts[didx + 1])
     IN /\ unique_contacts' = st.unique_contacts
        /\ contact_infos' = st.contact_infos
        /\ stats' = [ stats EXCEPT !.duplicates_removed = st.duplicates_removed ]
  /\ didx' = didx + 1
  /\ UNCHANGED << pc, cleaned_contacts, parseVars, cleanVars, runVars >>

\* line 183
DedupReturn ==
  /\ pc = "dedup" /\ didx = Len(cleaned_contacts)
  /\ pc' = "deduped"
  /\ UNCHANGED << stats, cleaned_contacts, didx, unique_contacts, contact_infos,
                  parseVars, cleanVars, runVars >>

\* nettoyer_vcf(input_path, output_path), lines 194-196: the input path names
\* no file
CallMissing ==
  /\ runs' = runs + 1
  /\ output_before' = output_file
  /\ lines' = << >> /\ contacts' = << >>
  /\ cleaned_contacts' = << >> /\ final_contacts' = << >>
  /\ cidx' = 0 /\ widx' = 0
  /\ result' = << FALSE >>
  /\ pc' = "returned"
  /\ UNCHANGED << stats, output_file, pidx, current_contact, in_vcard, cleanVars,
                  didx, unique_contacts, contact_infos >>

\* lines 189-213: the input path names one of the files, which is read
CallRead(files) ==
  /\ runs' = runs + 1
  /\ output_before' = output_file
  /\ \E f \in files : f # << >> /\ lines' = f[1]
  /\ contacts' = << >>
  /\ cleaned_contacts' = << >> /\ final_contacts' = << >>
  /\ cidx' = 0 /\ widx' = 0
  /\ result' = << >>
  /\ pc' = "run_read"
  /\ UNCHANGED << stats, output_file, pidx, current_contact, in_vcard, cleanVars,
                  didx, unique_contacts, contact_infos >>

\* the first call on a VCFCleaner
RunMissing == pc = "idle" /\ CallMissing
RunRead == pc = "idle" /\ CallRead(RunInputs)

\* a call on a VCFCleaner, the first or a later one
RerunMissing == pc \in { "idle", "returned" } /\ runs < MaxRuns /\ CallMissing
RerunRead == pc \in { "idle", "returned" } /\ runs < MaxRuns /\ CallRead(RerunInputs)

\* lines 216-218
RunParse ==
  /\ pc = "run_read"
  /\ contacts' = ParseVcfContacts(lines)
  /\ stats' = [ stats EXCEPT !.total_contacts = Len(contacts') ]
  /\ pc' = "run_parsed"
  /\ UNCHANGED << lines, pidx, current_contact, in_vcard, cleanVars, dedupVars, runVars >>

\* lines 220-222
RunNoContacts ==
  /\ pc = "run_parsed" /\ NoContacts(contacts)
  /\ result' = << FALSE >>
  /\ pc' = "returned"
  /\ UNCHANGED << stats, parseVars, cleanVars, dedupVars, output_file, output_before,
                  runs, cidx, final_contacts, widx >>

\* lines 225-229: one iteration, with its call of _clean_contact
RunCleanContact ==
  /\ pc = "run_parsed" /\ ~NoContacts(contacts) /\ cidx < Len(contacts)
  /\ LET st == CleanFold(CleanLocals0(stats.blocks_removed), contacts[cidx + 1])
         cleaned_contact == CleanResult(st)
     IN /\ stats' = IF st.has_phone
                     THEN [ stats EXCEPT !.blocks_removed = st.blocks_removed,
                                         !.contacts_with_phone = @ + 1 ]
                     ELSE [ stats EXCEPT !.blocks_removed = st.blocks_removed,
                                         !.contacts_removed = @ + 1 ]
        /\ cleaned_contacts' = IF Truthy(cleaned_contact)
                                THEN Append(cleaned_contacts, cleaned_contact[1])
                                ELSE cleaned_contacts
  /\ cidx' = cidx + 1
  /\ UNCHANGED << pc, parseVars, cleanVars, didx, unique_contacts, contact_infos,
                  output_file, output_before, result, runs, final_contacts, widx >>

\* line 232: the call of _remove_duplicates
RunDedup ==
  /\ pc = "run_parsed" /\ ~NoContacts(contacts) /\ cidx = Len(contacts)
  /\ LET st == DedupFold(DedupLocals0(stats.duplicates_removed), cleaned_contacts)
     IN /\ final_contacts' = st.unique_contacts
        /\ stats' = [ stats EXCEPT !.duplicates_removed = st.duplicates_removed ]
  /\ pc' = "run_deduped"
  /\ UNCHANGED << parseVars, cleanVars, dedupVars, output_file, output_before,
                  result, runs, cidx, widx >>

\* line 235: open(output_path, 'w') creates the file or empties it
RunOpen ==
  /\ pc = "run_deduped"
  /\ output_file' = << << >> >>
  /\ widx' = 0
  /\ pc' = "run_writing"
  /\ UNCHANGED << stats, parseVars, cleanVars, dedupVars, output_before, result,
                  runs, cidx, final_contacts >>

\* line 235 raises (the path cannot be opened for writing); lines 244-246
RunOpenFault ==
  /\ pc = "run_deduped"
  /\ result' = << FALSE >>
  /\ pc' = "returned"
  /\ UNCHANGED << stats, parseVars, cleanVars, dedupVars, output_file, output_before,
                  runs, cidx, final_contacts, widx >>

\* lines 236-237: one iteration
RunWrite ==
  /\ pc = "run_writing" /\ widx < Len(final_contacts)
  /\ output_file' = << output_file[1] \o final_contacts[widx + 1] >>
  /\ widx' = widx + 1
  /\ UNCHANGED << pc, stats, parseVars, cleanVars, dedupVars, output_before, result,
                  runs, cidx, final_contacts >>

\* line 237 raises (the device is full, say) after some of the record's lines
\* reached the file; lines 244-246
RunWriteFault ==
  /\ pc = "run_writing" /\ widx < Len(final_contacts)
  /\ \E k \in 0 .. Len(final_contacts[widx + 1]) - 1 :
        output_file' = << output_file[1] \o SubSeq(final_contacts[widx + 1], 1, k) >>
  /\ result' = << FALSE >>
  /\ pc' = "returned"
  /\ UNCHANGED << stats, parseVars, cleanVars, dedupVars, output_before,
                  runs, cidx, final_contacts, widx >>

\* lines 240-242: the file is closed, the statistics are printed
RunReturn ==
  /\ pc = "run_writing" /\ widx = Len(final_contacts)
  /\ result' = << TRUE >>
  /\ pc' = "returned"
  /\ UNCHANGED << stats, parseVars, cleanVars, dedupVars, output_file, output_before,
                  runs, cidx, final_contacts, widx >>

NextSplit == ParseCall \/ ParseLine \/ ParseReturn
NextClean == CleanCall \/ CleanLine \/ CleanReturn \/ CleanDone
NextDedup == DedupCall \/ DedupStep \/ DedupReturn
RunSteps ==
  \/ RunParse \/ RunNoContacts \/ RunCleanContact \/ RunDedup
  \/ RunOpen \/ RunOpenFault \/ RunWrite \/ RunWriteFault \/ RunReturn
Next == RunMissing \/ RunRead \/ RunSteps
NextRuns == RerunMissing \/ RerunRead \/ RunSteps

\* the Splitter called on a file
SpecSplit == Init /\ [][NextSplit]_vars
\* the Cleaner called on one record after another
SpecClean == Init /\ [][NextClean]_vars
\* the Deduplicator called on a list of cleaned records
SpecDedup == Init /\ [][NextDedup]_vars
\* nettoyer_vcf called on a freshly constructed VCFCleaner
Spec == Init /\ [][Next]_vars
\* nettoyer_vcf called on one file after another, on the same VCFCleaner
SpecRuns == Init /\ [][NextRuns]_vars

----------------------------------------------------------------------------
(* The Splitter's records (C10).                                            *)

IsBeginLine(l) == StartsWith(Strip(l), BeginMarker)
IsEndLine(l) == StartsWith(Strip(l), EndMarker)
IsMarker(l) == IsBeginLine(l) \/ IsEndLine(l)

\* the well-formed blocks among the first n lines of ls: a BEGIN line at i, an
\* END line at j, and no BEGIN or END line between them
Blocks(ls, n) ==
  { b \in (1 .. n) \X (1 .. n) :
      /\ b[1] < b[2]
      /\ IsBeginLine(ls[b[1]]) /\ IsEndLine(ls[b[2]])
      /\ \A k \in b[1] + 1 .. b[2] - 1 : ~IsMarker(ls[k]) }

\* the place of block b among the blocks, in the order of their END lines
BlockRank(bs, b) == 1 + Cardinality({ c \in bs : c[2] < b[2] })

\* a record starts with its one BEGIN line and ends with its one END line
WellFormedRecord(rec) ==
  /\ Len(rec) >= 2
  /\ IsBeginLine(rec[1]) /\ IsEndLine(rec[Len(rec)])
  /\ \A k \in 2 .. Len(rec) - 1 : ~IsMarker(rec[k])

\* C10: at every step of the Splitter's scan and when it returns, the emitted
\* records are exactly the well-formed blocks of the lines read so far, in
\* order: each starts with one BEGIN:VCARD line, ends with one END:VCARD line
\* and has no marker line in between; a stray END emits nothing, and the lines
\* of a BEGIN that is not closed before the next BEGIN or the end of the input
\* are in no emitted record.
C10_SplitterEmitsExactlyTheBlocks ==
  pc \in { "parse", "parsed" } =>
    LET bs == Blocks(lines, pidx)
    IN /\ Len(contacts) = Cardinality(bs)
       /\ \A b \in bs : contacts[BlockRank(bs, b)] = SubSeq(lines, b[1], b[2])
       /\ \A m \in DOMAIN contacts : WellFormedRecord(contacts[m])

\* a file with a stray END, a BEGIN cut short by another BEGIN, one emitted
\* record, and a BEGIN left open at the end of the input
C10_Witness ==
  /\ pc = "parsed"
  /\ Len(lines) >= 5
  /\ IsEndLine(lines[1])
  /\ \E i \in 2 .. Len(lines) - 1 : IsBeginLine(lines[i]) /\ IsBeginLine(lines[i + 1])
  /\ IsBeginLine(lines[Len(lines)])
  /\ Len(contacts) = 1

----------------------------------------------------------------------------
(* The Cleaner's scan, stated on the record (C1, C4, C5, C6, C9, C16).      *)

HasColon(l) == \E i \in DOMAIN l : l[i] = ":"
LeadingWhitespace(l) == Len(l) > 0 /\ IsSpace(l[1])
IsBlank(l) == \A i \in DOMAIN l : IsSpace(l[i])
Removable(l) == ShouldRemoveField(Strip(l))

\* the trimmed text of l starts, case-insensitively, with TEL
TelPrefixed(l) ==
  LET t == Strip(l)
  IN Len(t) >= 3 /\ UpperChar(t[1]) = "T" /\ UpperChar(t[2]) = "E" /\ UpperChar(t[3]) = "L"

\* skip mode is active when the scan reaches line k of ls: a removable line
\* precedes it, and no line in between is a non-removable line with a ':'
SkipBefore(ls, k) ==
  \E j \in 1 .. k - 1 :
     /\ \A m \in j + 1 .. k - 1 : ~HasColon(ls[m]) /\ ~Removable(ls[m])
     /\ Removable(ls[j])

\* line k is the start line of a removable property
StartLine(ls, k) == Removable(ls[k]) /\ (~SkipBefore(ls, k) \/ HasColon(ls[k]))
\* line k is consumed in skip mode
Consumed(ls, k) == SkipBefore(ls, k) /\ ~HasColon(ls[k])
Suppressed(ls, k) == StartLine(ls, k) \/ Consumed(ls, k)

\* the lines of ls[1..n] that are not suppressed, unchanged and in order
RECURSIVE KeptUpTo(_, _)
KeptUpTo(ls, n) ==
  IF n = 0 THEN << >>
  ELSE KeptUpTo(ls, n - 1) \o (IF Suppressed(ls, n) THEN << >> ELSE << ls[n] >>)

NoTelLine(ls) == \A k \in DOMAIN ls : ~TelPrefixed(ls[k])
NoRetainedTelLine(ls) == \A k \in DOMAIN ls : TelPrefixed(ls[k]) => Suppressed(ls, k)
NoRemovableLine(ls) == \A k \in DOMAIN ls : ~Removable(ls[k])

\* the step of the scan that returns from _clean_contact
Returning == pc = "clean" /\ pc' = "cleaned"
\* the step of the scan that reads line lidx + 1
Reading == pc = "clean" /\ lidx' = lidx + 1
NextLine == contact_lines[lidx + 1]

\* C6: when the Cleaner returns, cleaned_lines is the order-preserving
\* subsequence of the record's lines that are neither a removable property's
\* start line nor consumed in skip mode, each with its original text (leading
\* and trailing whitespace and line terminator included), and that
\* subsequence is the value returned for an accepted record.
C6_CleanedIsTheUnsuppressedSubsequence ==
  pc = "cleaned" =>
    LET kept == KeptUpTo(contact_lines, Len(contact_lines))
    IN /\ cleaned_lines = kept
       /\ (ret # << >> => ret = << kept >>)

\* an accepted record with a removable start line and a line consumed in skip
\* mode
C6_Witness ==
  /\ pc = "cleaned" /\ ret # << >>
  /\ \E k \in DOMAIN contact_lines : StartLine(contact_lines, k)
  /\ \E k \in DOMAIN contact_lines : Consumed(contact_lines, k)
  /\ Len(ret[1]) = Len(contact_lines) - 2

\* C9: the Cleaner returns a record with no removable line and at least one
\* TEL-prefixed line unchanged, and cleaning the value it returned for any
\* accepted record returns that value again.
C9_CleaningIsIdempotent ==
  pc = "cleaned" =>
    /\ (NoRemovableLine(contact_lines) /\ ~NoTelLine(contact_lines) =>
          ret = << contact_lines >>)
    /\ (ret # << >> => CleanContact(ret[1]) = ret)

\* an accepted record that lost lines to the Cleaner
C9_Witness ==
  /\ pc = "cleaned" /\ ret # << >>
  /\ ret[1] # contact_lines
  /\ ~NoRemovableLine(contact_lines)

\* C1 as claimed: a record with no TEL-prefixed line is rejected, and
\* contacts_removed grows by one for such a record and by nothing for any
\* other record.
C1_RemovedCountsRecordsWithoutTel ==
  [][ Returning =>
        /\ (NoTelLine(contact_lines) => ret' = << >>)
        /\ stats'.contacts_removed =
             stats.contacts_removed + (IF NoTelLine(contact_lines) THEN 1 ELSE 0) ]_vars

\* C1 as amended: a record with no TEL-prefixed line is rejected, and
\* contacts_removed grows by one for each record in which the scan retains no
\* TEL-prefixed line (every record without such a line, and every record whose
\* TEL-prefixed lines are all consumed in skip mode), by nothing for any other.
C1_RemovedCountsRecordsWithoutRetainedTel ==
  [][ Returning =>
        /\ (NoTelLine(contact_lines) => ret' = << >>)
        /\ (ret' = << >> <=> NoRetainedTelLine(contact_lines))
        /\ stats'.contacts_removed =
             stats.contacts_removed
               + (IF NoRetainedTelLine(contact_lines) THEN 1 ELSE 0)
        /\ stats'.contacts_with_phone =
             stats.contacts_with_phone
               + (IF NoRetainedTelLine(contact_lines) THEN 0 ELSE 1) ]_vars

\* the second of two rejected records, both counted: this one has a
\* TEL-prefixed line, which skip mode consumed
C1_Witness ==
  /\ pc = "cleaned" /\ ret = << >>
  /\ stats.contacts_removed = 2 /\ stats.contacts_with_phone = 0
  /\ ~NoTelLine(contact_lines)

\* C4 as claimed: in skip mode a line is suppressed, and skip mode stays
\* active, unless the line contains ':' and does not begin with whitespace.
C4_SkipModeConsumesIndentedLines ==
  [][ (Reading /\ skip_until_next_field
         /\ ~(HasColon(NextLine) /\ ~LeadingWhitespace(NextLine))) =>
        (skip_until_next_field' /\ cleaned_lines' = cleaned_lines) ]_vars

\* C5 as claimed: the line that follows a blank line met in skip mode is
\* classified in Normal mode, so it is retained unless it is removable.
C5_BlankLineEndsSkipMode ==
  [][ (Reading /\ lidx >= 1 /\ IsBlank(contact_lines[lidx])
         /\ SkipBefore(contact_lines, lidx) /\ ~Removable(NextLine)) =>
        (cleaned_lines' = Append(cleaned_lines, NextLine)
           /\ ~skip_until_next_field') ]_vars

\* C5 as amended: a blank line met in skip mode is suppressed and leaves skip
\* mode active; the line that follows it is suppressed too, and skip mode
\* stays active, when it contains no ':'; when it contains ':' it is
\* classified in Normal mode (retained unless removable).
C5_BlankLineKeepsSkipMode ==
  [][ /\ (Reading /\ skip_until_next_field /\ IsBlank(NextLine)) =>
           (skip_until_next_field' /\ cleaned_lines' = cleaned_lines)
      /\ (Reading /\ lidx >= 1 /\ IsBlank(contact_lines[lidx])
            /\ SkipBefore(contact_lines, lidx)) =>
           /\ skip_until_next_field
           /\ (~HasColon(NextLine) =>
                 skip_until_next_field' /\ cleaned_lines' = cleaned_lines)
           /\ (HasColon(NextLine) /\ ~Removable(NextLine) =>
                 /\ cleaned_lines' = Append(cleaned_lines, NextLine)
                 /\ ~skip_until_next_field')
           /\ (HasColon(NextLine) /\ Removable(NextLine) =>
                 skip_until_next_field' /\ cleaned_lines' = cleaned_lines) ]_vars

\* a removable line, a blank line, then a line with no ':' that is not
\* removable: all three are suppressed and skip mode is still active
C5_Witness ==
  /\ pc = "clean" /\ lidx = 4
  /\ Removable(contact_lines[2]) /\ IsBlank(contact_lines[3])
  /\ ~HasColon(contact_lines[4]) /\ ~Removable(contact_lines[4])
  /\ ~IsBlank(contact_lines[4])
  /\ skip_until_next_field
  /\ cleaned_lines = << contact_lines[1] >>

\* C16: on every call of the Cleaner, each step of the scan adds to
\* blocks_removed the number of lines it read minus the number of lines it
\* retained (1 for a suppressed line, directly matched or consumed in skip
\* mode, 0 for a retained line), and nothing else changes the counter: not the
\* return, whether the record is accepted or rejected, not the call.  Over a
\* call the counter grows by the record's line count minus the retained lines.
C16_BlocksRemovedCountsSuppressedLines ==
  [][ stats'.blocks_removed - stats.blocks_removed
        = IF pc = "clean"
          THEN (lidx' - lidx) - (Len(cleaned_lines') - Len(cleaned_lines))
          ELSE 0 ]_vars

\* the second call on a VCFCleaner: the first accepted a record and suppressed
\* one of its lines; this one rejects a record after suppressing a directly
\* matched line and the blank line consumed after it
C16_Witness ==
  /\ pc = "cleaned" /\ ret = << >>
  /\ contact_lines = << L_BEGIN, L_photo, L_BLANK, L_END >>
  /\ cleaned_lines = << L_BEGIN, L_END >>
  /\ stats.contacts_with_phone = 1 /\ stats.contacts_removed = 1
  /\ stats.blocks_removed = 3

----------------------------------------------------------------------------
(* The identity rule and the Deduplicator's scan (C2, C3, C7, C8, C12, C15). *)

\* the records at two positions are judged equivalent by the identity rule
Equivalent(a, b) == IsDuplicate(ExtractContactInfo(a), ExtractContactInfo(b))

\* the step of the scan that reads the record at position didx + 1
Scanning == pc = "dedup" /\ didx' = didx + 1
NextContact == cleaned_contacts[didx + 1]

InOutput(rec) == \E m \in DOMAIN unique_contacts : unique_contacts[m] = rec

\* the identities of the records cs, position by position
RECURSIVE InfosOf(_)
InfosOf(cs) ==
  IF Len(cs) = 0 THEN << >>
  ELSE << ExtractContactInfo(Head(cs)) >> \o InfosOf(Tail(cs))

\* the record at position i, of identity info[i], is accepted: it is
\* equivalent to no accepted record before it
RECURSIVE Accepted(_, _)
Accepted(info, i) ==
  \A k \in 1 .. i - 1 : Accepted(info, k) => ~IsDuplicate(info[i], info[k])

\* the accepted records among the first n of cs, in order
RECURSIVE AcceptedUpTo(_, _, _)
AcceptedUpTo(cs, info, n) ==
  IF n = 0 THEN << >>
  ELSE AcceptedUpTo(cs, info, n - 1)
         \o (IF Accepted(info, n) THEN << cs[n] >> ELSE << >>)

\* C2 as claimed: the record at position j is dropped whenever some record at
\* an earlier position i is equivalent to it.
C2_LaterOfAnyEquivalentPairIsDropped ==
  [][ (Scanning /\ \E i \in 1 .. didx : Equivalent(cleaned_contacts[i], NextContact)) =>
        unique_contacts' = unique_contacts ]_vars

\* C2 as amended: the record at position j is dropped whenever some record at
\* an earlier position i that is itself in the output is equivalent to it (in
\* either order of the two arguments).
C2_LaterOfPairWithSurvivorIsDropped ==
  [][ (Scanning /\ \E i \in 1 .. didx :
          /\ InOutput(cleaned_contacts[i])
          /\ \/ Equivalent(cleaned_contacts[i], NextContact)
             \/ Equivalent(NextContact, cleaned_contacts[i])) =>
        unique_contacts' = unique_contacts ]_vars

\* three records, the second equivalent to the first and to the third, the
\* first and the third not equivalent: the first and the third survive
C2_Witness ==
  /\ pc = "deduped" /\ Len(cleaned_contacts) = 3
  /\ Equivalent(cleaned_contacts[1], cleaned_contacts[2])
  /\ Equivalent(cleaned_contacts[2], cleaned_contacts[3])
  /\ ~Equivalent(cleaned_contacts[1], cleaned_contacts[3])
  /\ unique_contacts = << cleaned_contacts[1], cleaned_contacts[3] >>

\* C3: at every step of the scan and when it returns, the accepted records are
\* the records read so far that are equivalent to no record accepted before
\* them, in input order, with their identities in contact_infos; no two
\* accepted records are equivalent; the first record read is accepted.
C3_AcceptedIffNoEarlierAcceptedEquivalent ==
  pc \in { "dedup", "deduped" } =>
    /\ unique_contacts =
         AcceptedUpTo(cleaned_contacts, InfosOf(cleaned_contacts), didx)
    /\ contact_infos = InfosOf(unique_contacts)
    /\ \A m, n \in DOMAIN contact_infos :
          m # n => ~IsDuplicate(contact_infos[m], contact_infos[n])
    /\ (didx >= 1 =>
          Len(unique_contacts) >= 1 /\ unique_contacts[1] = cleaned_contacts[1])

\* the third record is equivalent to the first and not to the second, which
\* was accepted: it is dropped
C3_Witness ==
  /\ pc = "deduped" /\ Len(cleaned_contacts) = 3
  /\ ~Equivalent(cleaned_contacts[2], cleaned_contacts[1])
  /\ ~Equivalent(cleaned_contacts[3], cleaned_contacts[2])
  /\ Equivalent(cleaned_contacts[3], cleaned_contacts[1])
  /\ unique_contacts = << cleaned_contacts[1], cleaned_contacts[2] >>

\* two names are equal ignoring case: the same letters, position by position
SameIgnoringCase(s, t) ==
  /\ Len(s) = Len(t)
  /\ \A i \in DOMAIN s : s[i] = t[i] \/ UpperChar(s[i]) = t[i] \/ s[i] = UpperChar(t[i])

\* two phones have the same final SuffixLen characters
SameSuffix(p, q) ==
  /\ Len(p) >= SuffixLen /\ Len(q) >= SuffixLen
  /\ \A k \in 0 .. SuffixLen - 1 : p[Len(p) - k] = q[Len(q) - k]

NameRule(a, b) ==
  Len(a.name) > 0 /\ Len(b.name) > 0 /\ SameIgnoringCase(a.name, b.name)
PhoneRule(a, b) ==
  \E i \in DOMAIN a.phones : \E j \in DOMAIN b.phones : SameSuffix(a.phones[i], b.phones[j])

\* C7: for the identities of any two records handed to the Deduplicator,
\* _is_duplicate is TRUE exactly when both names are non-empty and equal
\* ignoring case, or some phone of each has at least 8 characters and the two
\* have the same final 8 characters.
C7_IsDuplicateIsNameOrSuffixRule ==
  pc \in { "dedup", "deduped" } =>
    LET info == InfosOf(cleaned_contacts)
    IN \A i, j \in DOMAIN info :
          IsDuplicate(info[i], info[j]) <=>
            (NameRule(info[i], info[j]) \/ PhoneRule(info[i], info[j]))

\* a pair with different names and phones that differ before the last 8
\* characters only, and a pair with one name in two cases and distinct
\* phones: both pairs are duplicates
C7_Witness ==
  /\ pc = "dedup"
  /\ LET info == InfosOf(cleaned_contacts)
     IN /\ \E i, j \in DOMAIN info :
              /\ Len(info[i].name) > 0 /\ Len(info[j].name) > 0
              /\ ~SameIgnoringCase(info[i].name, info[j].name)
              /\ info[i].phones # info[j].phones
              /\ IsDuplicate(info[i], info[j])
        /\ \E i, j \in DOMAIN info :
              /\ info[i].name # info[j].name
              /\ SameIgnoringCase(info[i].name, info[j].name)
              /\ ~PhoneRule(info[i], info[j])
              /\ IsDuplicate(info[i], info[j])

\* C8: for the identities of any two records handed to the Deduplicator,
\* _is_duplicate gives the same answer in both orders of its arguments.
C8_IsDuplicateIsSymmetric ==
  pc \in { "dedup", "deduped" } =>
    LET info == InfosOf(cleaned_contacts)
    IN \A i, j \in DOMAIN info :
          IsDuplicate(info[i], info[j]) = IsDuplicate(info[j], info[i])

\* two different identities, one with more phones than the other, that are
\* duplicates in both orders, and two that are duplicates in neither
C8_Witness ==
  /\ pc = "dedup"
  /\ LET info == InfosOf(cleaned_contacts)
     IN /\ \E i, j \in DOMAIN info :
              /\ Len(info[i].phones) # Len(info[j].phones)
              /\ IsDuplicate(info[i], info[j]) /\ IsDuplicate(info[j], info[i])
        /\ \E i, j \in DOMAIN info :
              ~IsDuplicate(info[i], info[j]) /\ ~IsDuplicate(info[j], info[i])

\* C12: during and after a call of the Deduplicator (the counter is 0 when it
\* is called), duplicates_removed is the number of records read minus the
\* number of records accepted, so input_count - output_count when it returns:
\* one increment for each dropped record, however many accepted identities the
\* record matches.
C12_DuplicatesCounterIsInputMinusOutput ==
  pc \in { "dedup", "deduped" } =>
    /\ stats.duplicates_removed = didx - Len(unique_contacts)
    /\ pc = "deduped" =>
          stats.duplicates_removed = Len(cleaned_contacts) - Len(unique_contacts)

\* the third record matches both accepted identities, one by name and one by
\* phone suffix, and is counted once
C12_Witness ==
  /\ pc = "deduped"
  /\ cleaned_contacts = << R_Al, R_Bo, R_al >>
  /\ unique_contacts = << R_Al, R_Bo >>
  /\ LET info == InfosOf(cleaned_contacts)
     IN IsDuplicate(info[3], info[1]) /\ IsDuplicate(info[3], info[2])
  /\ stats.duplicates_removed = 1

\* an identity with an empty name and no phone of 8 characters or more
Weak(info) ==
  info.name = << >> /\ \A p \in DOMAIN info.phones : Len(info.phones[p]) < 8
WeakRecord(rec) == Weak(ExtractContactInfo(rec))
StrongRecord(rec) == ~WeakRecord(rec)

\* C15: when the Deduplicator has returned, a record with an empty name and no
\* normalized phone of length >= 8 is a duplicate of no record of the input,
\* in either order, not even of an identical one; every such record of the
\* input is in the output; and the other records are dropped or kept exactly
\* as if those records were not in the input.
C15_WeakIdentityIsNeverDuplicate ==
  pc = "deduped" =>
    LET info == InfosOf(cleaned_contacts)
    IN /\ \A i, j \in DOMAIN info :
             Weak(info[i]) =>
               ~IsDuplicate(info[i], info[j]) /\ ~IsDuplicate(info[j], info[i])
       /\ SelectSeq(unique_contacts, WeakRecord) = SelectSeq(cleaned_contacts, WeakRecord)
       /\ SelectSeq(unique_contacts, StrongRecord)
            = RemoveDuplicates(SelectSeq(cleaned_contacts, StrongRecord))

\* the same record without a name and with a short phone twice, around a
\* record with an empty FN value and a phone of 7 digits: all three are kept
C15_Witness ==
  /\ pc = "deduped"
  /\ cleaned_contacts = << R_Short, R_Seven, R_Short >>
  /\ \A i \in 1 .. 3 : WeakRecord(cleaned_contacts[i])
  /\ unique_contacts = cleaned_contacts
  /\ stats.duplicates_removed = 0

----------------------------------------------------------------------------
(* The run and its output file (C11, C13, C14, C17, C18).                   *)

Returned == pc = "returned"
Succeeded == Returned /\ result = << TRUE >>
Failed == Returned /\ result = << FALSE >>

\* C11: a run of nettoyer_vcf is atomic on the output file: when it has
\* returned, either it returned True and the file holds the complete cleaned
\* output, or it returned False and the file at the output path is what it was
\* when the run was called (absent if it was absent); a fault in opening or
\* writing the output leaves no partial file behind.
C11_RunIsAtomicOnTheOutputFile ==
  Returned =>
    \/ result = << TRUE >> /\ output_file = << Flatten(final_contacts) >>
    \/ result = << FALSE >> /\ output_file = output_before

\* the number of well-formed begin/end blocks in the lines of a file
RecordsIn(file) == Cardinality(Blocks(file, Len(file)))

\* C13: when the first run on a VCFCleaner has returned True, the output file
\* exists and the number of records in it is final_count, that is
\* contacts_with_phone - duplicates_removed.
C13_WrittenRecordsEqualFinalCount ==
  Succeeded /\ runs = 1 =>
    /\ output_file # << >>
    /\ RecordsIn(output_file[1]) = stats.contacts_with_phone - stats.duplicates_removed
    /\ RecordsIn(output_file[1]) = FinalCount(stats)

\* three records parsed, one without a phone and one a duplicate: one written
C13_Witness ==
  /\ Succeeded /\ runs = 1
  /\ stats.total_contacts = 3
  /\ stats.contacts_removed = 1 /\ stats.contacts_with_phone = 2
  /\ stats.duplicates_removed = 1
  /\ RecordsIn(output_file[1]) = 1

\* the lines hold no well-formed begin/end block
ZeroBlocks(ls) == Blocks(ls, Len(ls)) = { }

\* C14: in a run whose input holds zero well-formed begin/end blocks (an empty
\* input included), every step leaves contacts_with_phone, contacts_removed,
\* duplicates_removed and blocks_removed as they are (the Cleaner and the
\* Deduplicator are not invoked) and leaves the file at the output path as it
\* is, absent or not; and the run ends by returning False.
C14_NoRecordsIsAFailureWithoutOutput ==
  [][ ZeroBlocks(lines') /\ pc' # "idle" =>
        /\ stats'.contacts_with_phone = stats.contacts_with_phone
        /\ stats'.contacts_removed = stats.contacts_removed
        /\ stats'.duplicates_removed = stats.duplicates_removed
        /\ stats'.blocks_removed = stats.blocks_removed
        /\ output_file' = output_file
        /\ pc' \in { "run_read", "run_parsed", "returned" }
        /\ pc' = "returned" => result' = << FALSE >> ]_vars

\* the second run on a VCFCleaner: the first wrote a file with a record, this
\* one read lines that hold no block, and has returned False
C14_Witness ==
  /\ Failed /\ runs = 2
  /\ lines # << >> /\ ZeroBlocks(lines)
  /\ stats.total_contacts = 0 /\ stats.contacts_with_phone = 1
  /\ output_file # << >> /\ output_file[1] # << >>
  /\ output_file = output_before

\* C17: when a run that parsed at least one record has returned, whatever runs
\* came before it on the same VCFCleaner, total_contacts is
\* contacts_with_phone + contacts_removed.
C17_TotalIsWithPhonePlusRemoved ==
  Returned /\ Len(contacts) >= 1 =>
    stats.total_contacts = stats.contacts_with_phone + stats.contacts_removed

HasTelLine(rec) == \E k \in DOMAIN rec : TelPrefixed(rec[k])
LastLine(rec) == rec[Len(rec)]

\* C18: in a run, every record the Cleaner has accepted is a well-formed
\* begin/end block with at least one TEL-prefixed line, and its first and last
\* lines are the BEGIN line and the END line of a record the Splitter produced
\* and the Cleaner has read (skip mode does not swallow the END line); and
\* when the run has returned True, the output file is made of exactly the
\* records kept by the Deduplicator, each such a block, with no line outside.
C18_AcceptedRecordsKeepBeginAndEnd ==
  /\ \A i \in DOMAIN cleaned_contacts :
        LET rec == cleaned_contacts[i]
        IN /\ WellFormedRecord(rec) /\ HasTelLine(rec)
           /\ \E m \in 1 .. cidx :
                 rec[1] = contacts[m][1] /\ LastLine(rec) = LastLine(contacts[m])
  /\ Succeeded =>
        LET file == output_file[1]
            bs == Blocks(file, Len(file))
        IN /\ Cardinality(bs) = Len(final_contacts)
           /\ \A b \in bs :
                 LET rec == SubSeq(file, b[1], b[2])
                 IN /\ rec = final_contacts[BlockRank(bs, b)]
                    /\ WellFormedRecord(rec) /\ HasTelLine(rec)
           /\ Len(file) = Len(Flatten(final_contacts))

\* a record with an indented BEGIN line and a removable block, followed by a
\* blank line, right before its END line: it is written with both markers
C18_Witness ==
  /\ Succeeded
  /\ \E m \in DOMAIN contacts : contacts[m] = K_Photo
  /\ \E i \in DOMAIN final_contacts :
        final_contacts[i] = << L_BEGIN_SP, L_TEL_SHORT, L_END >>
  /\ stats.blocks_removed >= 2
  /\ RecordsIn(output_file[1]) >= 1

====
